---- MODULE Spec2Model ----
(***************************************************************************)
(* Model of the TGL end-to-end suite: the HomePage page object             *)
(* (src/pages/HomePage.ts) driven by the scenarios TC-00..TC-04 and their  *)
(* beforeEach hook (src/unnamed/part_000), run against a website whose     *)
(* answers (what is visible, where a click leads, how long it takes) are   *)
(* not under the suite's control and are therefore nondeterministic.       *)
(*                                                                         *)
(* A scenario is the sequence of awaited calls it makes.  `prog' is the    *)
(* continuation (the calls still to make), `trace' the calls that          *)
(* completed, in order.  Every awaited call may suspend; time advances in  *)
(* steps of TickMs while the head of `prog' is suspended.                  *)
(***************************************************************************)
EXTENDS Integers, Sequences, FiniteSets, TLC

\* ------------------------------------------------------------- bounds ----
\* granularity of the clock, in milliseconds
TickMs == 5000
\* largest number of text-bearing elements the site renders on a page
MaxDom == 2
\* number of worker processes the runner executes tests in
NumWorkers == 2

\* ---------------------------------------------- framework defaults ----
\* expect(...) without a timeout option polls for 5 s
ExpectTimeout == 5000
\* a test (its beforeEach hook included) is aborted after 30 s
TestTimeout == 30000

\* ------------------------------------------------------------ locators ----
Loc(by, name) == [by |-> by, name |-> name]

Page == Loc("page", "")
searchInput == Loc("textbox", "Search")
navBar == Loc("css", "#navbar")
mobileMenuButton == Loc("testid", "expand-button")
diabetesBreadcrumb == Loc("button", "Diabetes-breadcrumb")
principlesBtn == Loc("button", "Navigate to Principles of management of diabetes")
favoritesLink == Loc("link", "Favourites")
mobileFavButton == Loc("button", "Navigate to My favourites page")
\* page.locator(`text="${name}" >> visible=true`).first()
VisibleText(name) == Loc("text", name)
topicName == "Principles of management of diabetes"
searchTerm == "Diabetes"
Heading(name) == Loc("heading", name)
\* `Favourite ${topicName}`
favButton(topic) == Loc("button", "Favourite " \o topic)

\* --------------------------------------------------- strings as text ----
\* URLs and titles are character sequences, so that a pattern is matched
\* the way the regular expression matches it.
UrlHome == <<"/">>
UrlSearch == <<"/", "s", "e", "a", "r", "c", "h">>
UrlDiabetes == <<"/", "D", "i", "a", "b", "e", "t", "e", "s">>
UrlFavourites == <<"/", "f", "a", "v", "o", "u", "r", "i", "t", "e", "s">>
SiteUrls == {UrlHome, UrlSearch, UrlDiabetes, UrlFavourites}

TitleHome == <<"H", "o", "m", "e", " ", "|", " ", "T", "G">>
TitleError == <<"E", "r", "r", "o", "r">>
NoTitle == <<>>
SiteTitles == {TitleHome, TitleError}

LowerOf(c) == CASE c = "D" -> "d" [] c = "H" -> "h" [] c = "T" -> "t"
                [] c = "G" -> "g" [] c = "E" -> "e" [] OTHER -> c
Lower(s) == [i \in 1..Len(s) |-> LowerOf(s[i])]

\* s contains p as a contiguous substring
Contains(s, p) ==
    \E k \in 0..(Len(s) - Len(p)) : \A i \in 1..Len(p) : s[k + i] = p[i]

\* a regular expression /a1|a2|.../ or /.../i without anchors: a set of
\* literal alternatives and the i flag (a leading .* matches anything)
Regex(alts, icase) == [alts |-> alts, icase |-> icase]
Test(re, s) ==
    \E a \in re.alts :
        IF re.icase THEN Contains(Lower(s), Lower(a)) ELSE Contains(s, a)

\* /.*search/
SearchPattern == Regex({<<"s", "e", "a", "r", "c", "h">>}, FALSE)
\* /.*diabetes/i
DiabetesPattern == Regex({<<"d", "i", "a", "b", "e", "t", "e", "s">>}, TRUE)
\* /.*favourites/
FavouritesPattern ==
    Regex({<<"f", "a", "v", "o", "u", "r", "i", "t", "e", "s">>}, FALSE)
\* /Home | Therapeutic Guidelines/
TitlePattern ==
    Regex({<<"H", "o", "m", "e", " ">>,
           <<" ", "T", "h", "e", "r", "a", "p", "e", "u", "t", "i", "c", " ",
             "G", "u", "i", "d", "e", "l", "i", "n", "e", "s">>}, FALSE)
NoPattern == Regex({}, FALSE)

\* ---------------------------------------------------------- viewports ----
MobileViewport == [width |-> 375, height |-> 667]
DesktopViewport == [width |-> 1920, height |-> 1080]
Viewports == {MobileViewport, DesktopViewport}
\* the layout the site computes when it loads
LayoutOf(vp) == IF vp = MobileViewport THEN "mobile" ELSE "desktop"

\* ------------------------------------------------------- instructions ----
\* one awaited call: the operation it belongs to, what it does, on which
\* locator, its timeout option (0: none given), its argument, the pattern
\* it tests, and whether the operation returns when it completes
Ins(kind, el, ms) ==
    [op |-> "", kind |-> kind, el |-> el, ms |-> ms, arg |-> "",
     re |-> NoPattern, ret |-> FALSE]
InsArg(kind, el, arg) == [Ins(kind, el, 0) EXCEPT !.arg = arg]
InsRe(kind, re, ms) == [Ins(kind, Page, ms) EXCEPT !.re = re]

\* the body of operation op: its calls, the last one returning
Body(op, calls) ==
    [i \in 1..Len(calls) |->
        [calls[i] EXCEPT !.op = op, !.ret = (i = Len(calls))]]

Interactions == {"fill", "press", "scroll", "click", "forceClick"}
Expects == {"expectVisible", "expectUrl", "expectTitle"}
Loads == {"goto", "reload"}
Suspending == Interactions \cup Expects \cup Loads \cup {"sleep"}

\* ------------------------------------------- HomePage (page object) ----
goto == Body("goto", <<Ins("goto", Page, 0)>>)

searchForGuideline(term) ==
    Body("searchForGuideline",
         <<Ins("expectVisible", searchInput, 30000),
           InsArg("fill", searchInput, term),
           InsArg("press", searchInput, "Enter"),
           Ins("sleep", Page, 1000)>>)

selectSearchResult(resultName) ==
    LET resultLink == VisibleText(resultName)
    IN  Body("selectSearchResult",
             <<Ins("scroll", resultLink, 0),
               Ins("expectVisible", resultLink, 10000),
               Ins("forceClick", resultLink, 0)>>)

clickDiabetesBreadcrumb ==
    Body("clickDiabetesBreadcrumb",
         <<Ins("expectVisible", diabetesBreadcrumb, 30000),
           Ins("click", diabetesBreadcrumb, 0)>>)

verifyPrinciplesTopicVisible ==
    Body("verifyPrinciplesTopicVisible",
         <<Ins("expectVisible", principlesBtn, 60000)>>)

openPrinciplesTopic ==
    LET topicButton == principlesBtn
    IN  Body("openPrinciplesTopic",
             <<Ins("expectVisible", topicButton, 0),
               Ins("click", topicButton, 0)>>)

toggleFavorite(topic) ==
    Body("toggleFavorite",
         <<Ins("expectVisible", favButton(topic), 0),
           Ins("click", favButton(topic), 0)>>)

\* navigateToFavorites starts by probing the menu button; the probe returns
\* at once and never throws
navigateToFavorites ==
    <<[Ins("isVisible", mobileMenuButton, 0) EXCEPT !.op = "navigateToFavorites"]>>

\* navigateToFavorites with arrival checked on the "Favourites" tab button
\* instead of the URL
navigateToFavoritesByTab(menuVisible) ==
    Body("navigateToFavorites",
         IF menuVisible
         THEN <<Ins("click", mobileMenuButton, 0),
                Ins("sleep", Page, 500),
                Ins("click", favoritesLink, 0),
                Ins("expectVisible", mobileFavButton, 0),
                Ins("click", mobileFavButton, 0),
                Ins("expectVisible", Loc("button", "Favourites"), 30000)>>
         ELSE <<Ins("expectVisible", favoritesLink, 0),
                Ins("click", favoritesLink, 0),
                Ins("expectVisible", Loc("button", "Favourites"), 30000)>>)

\* ... and goes on with the branch the probe selects
navigateToFavoritesBranch(menuVisible) ==
    Body("navigateToFavorites",
         IF menuVisible
         THEN <<Ins("click", mobileMenuButton, 0),
                Ins("sleep", Page, 500),
                Ins("click", favoritesLink, 0),
                Ins("expectVisible", mobileFavButton, 0),
                Ins("click", mobileFavButton, 0),
                InsRe("expectUrl", FavouritesPattern, 30000)>>
         ELSE <<Ins("expectVisible", favoritesLink, 0),
                Ins("click", favoritesLink, 0),
                InsRe("expectUrl", FavouritesPattern, 30000)>>)

verifyTopicInFavorites(topic) ==
    LET savedItem == VisibleText(topic)
    IN  Body("verifyTopicInFavorites",
             <<Ins("expectVisible", savedItem, 15000)>>)

\* ------------------------------------------------------- the scenarios ----
\* calls a scenario makes itself, outside the page object
Direct(calls) == [i \in 1..Len(calls) |-> [calls[i] EXCEPT !.op = "test"]]

beforeEach == goto

TC00 == Direct(<<InsRe("expectTitle", TitlePattern, 0)>>)

TC01 ==
    searchForGuideline(searchTerm)
    \o Direct(<<InsRe("expectUrl", SearchPattern, 0)>>)
    \o selectSearchResult("Diabetes")
    \o Direct(<<InsRe("expectUrl", DiabetesPattern, 0)>>)

TC02 == clickDiabetesBreadcrumb \o verifyPrinciplesTopicVisible

TC03 ==
    Direct(<<Ins("setViewportSize", Page, 0),
             Ins("reload", Page, 0),
             Ins("expectVisible", mobileMenuButton, 0)>>)

\* TC-04 with the favourite toggled before the topic page is confirmed
TC04ToggleFirst ==
    clickDiabetesBreadcrumb
    \o verifyPrinciplesTopicVisible
    \o openPrinciplesTopic
    \o toggleFavorite(topicName)
    \o Direct(<<Ins("expectVisible", Heading(topicName), 30000)>>)
    \o goto
    \o navigateToFavorites
    \o verifyTopicInFavorites(topicName)
    \o Direct(<<Ins("click", VisibleText(topicName), 0),
                Ins("expectVisible", Heading(topicName), 0)>>)

TC04 ==
    clickDiabetesBreadcrumb
    \o verifyPrinciplesTopicVisible
    \o openPrinciplesTopic
    \o Direct(<<Ins("expectVisible", Heading(topicName), 30000)>>)
    \o toggleFavorite(topicName)
    \o goto
    \o navigateToFavorites
    \o verifyTopicInFavorites(topicName)
    \o Direct(<<Ins("click", VisibleText(topicName), 0),
                Ins("expectVisible", Heading(topicName), 0)>>)

Tests == {"TC-00", "TC-01", "TC-02", "TC-03", "TC-04"}
TestBody(t) ==
    CASE t = "TC-00" -> TC00
      [] t = "TC-01" -> TC01
      [] t = "TC-02" -> TC02
      [] t = "TC-03" -> TC03
      [] t = "TC-04" -> TC04
Scenario(t) == beforeEach \o TestBody(t)

\* ------------------------------------------------------ page content ----
DomTexts == {"Diabetes", topicName}
Elements == [text : DomTexts, visible : BOOLEAN]
Doms == UNION {[1..n -> Elements] : n \in 0..MaxDom}

\* a positional locator, getByText(name).nth(1): the index of the second
\* element that carries the text, visible or not; 0 when there is none
LocateSecond(d, name) ==
    LET hits == {i \in 1..Len(d) : d[i].text = name}
    IN  IF Cardinality(hits) < 2 THEN 0
        ELSE CHOOSE i \in hits :
                Cardinality({j \in hits : j < i}) = 1

\* text="name" >> visible=true, .first(): the index of the first element
\* that carries exactly this text and is visible; 0 when there is none
Locate(d, name) ==
    LET hits == {i \in 1..Len(d) : d[i].text = name /\ d[i].visible}
    IN  IF hits = {} THEN 0 ELSE CHOOSE i \in hits : \A j \in hits : i <= j

\* --------------------------------------------------------------- state ----
VARIABLES
    tc,          \* the scenario being run
    viewport,    \* the session's viewport
    layout,      \* the layout the loaded page computed: "mobile", "desktop"
    url,         \* page.url()
    title,       \* the page's <title>
    dom,         \* the text-bearing elements of the page, in document order
    focus,       \* the locator holding input focus, <<>> when none
    navPending,  \* an interaction was sent and the site may still navigate
    menu,        \* the collapsed navigation: "closed", "opening", "open"
    now,         \* milliseconds since the test started
    waitStart,   \* when the call at the head of prog was started
    prog,        \* the awaited calls the scenario has still to make
    trace,       \* the calls that completed, in order
    outcome,     \* "Running", "Pass", "Fail"
    failure,     \* <<>>, or the error that ended the scenario
    \* the suite as the runner executes it in several workers
    pending,     \* the tests no worker has started yet
    slot,        \* per worker: the test it runs, that test's page fixture,
                 \* what the describe-level `homePage' holds, calls to make
    pages,       \* per test: the browser session of its page fixture
    result       \* per test: "Pending", "Running", "Pass", "Fail"

site == <<viewport, layout, url, title, dom, focus, navPending, menu>>
suite == <<pending, slot, pages, result>>
scenario == <<tc, viewport, layout, url, title, dom, focus, navPending, menu,
              now, waitStart, prog, trace, outcome, failure>>
vars == <<scenario, suite>>

Workers == 1..NumWorkers
\* a worker between tests; homePage = "" stands for the unassigned variable.
\* A session is named after the test whose page fixture it is.
IdleSlot(hp) == [test |-> "", page |-> "", homePage |-> hp, todo |-> <<>>]
NoPage == [state |-> "none", calls |-> <<>>]

Init ==
    /\ tc \in Tests
    /\ viewport \in Viewports
    /\ layout = "none"
    /\ url = <<>>
    /\ title = NoTitle
    /\ dom = <<>>
    /\ focus = <<>>
    /\ navPending = FALSE
    /\ menu = "closed"
    /\ now = 0
    /\ waitStart = 0
    /\ prog = Scenario(tc)
    /\ trace = <<>>
    /\ outcome = "Running"
    /\ failure = <<>>
    /\ pending = {}
    /\ slot = [w \in Workers |-> IdleSlot("")]
    /\ pages = [t \in Tests |-> NoPage]
    /\ result = [t \in Tests |-> "Pending"]

Running == outcome = "Running" /\ prog # <<>>
Elapsed == now - waitStart

\* calls that wait without a deadline: only a fixed delay ends by itself
DeadlineDisabled(ins) == IF ins.kind = "sleep" THEN ins.ms ELSE 0

\* the deadline of a call, 0 when it has none of its own: the timeout
\* option when given, the expect default for an assertion without one
Deadline(ins) ==
    IF ins.ms > 0 THEN ins.ms
    ELSE IF ins.kind \in Expects THEN ExpectTimeout ELSE 0
Expired(ins) == Deadline(ins) > 0 /\ Elapsed >= Deadline(ins)

Event(ins, hit) == [ins |-> ins, hit |-> hit]

\* the call at the head of prog completes
Complete(ins, hit) ==
    /\ trace' = Append(trace, Event(ins, hit))
    /\ prog' = Tail(prog)
    /\ waitStart' = now
    /\ UNCHANGED <<suite, tc, now, outcome, failure>>

\* an error that is caught where it is raised: it is noted and the scenario
\* goes on with its next call
ThrowCaught(kind) ==
    /\ failure' = <<[kind |-> kind, ins |-> Head(prog)]>>
    /\ prog' = Tail(prog)
    /\ waitStart' = now
    /\ UNCHANGED <<suite, tc, now, outcome, trace>>

\* an error leaves the call; nothing catches it, the scenario is over
Throw(kind) ==
    /\ outcome' = "Fail"
    /\ failure' = <<[kind |-> kind, ins |-> Head(prog)]>>
    /\ prog' = <<>>
    /\ UNCHANGED <<suite, tc, now, waitStart, trace>>

\* what the site lets a locator show: the menu button exists in the mobile
\* layout only
MayShow(el) == el = mobileMenuButton => layout = "mobile"

\* ------------------------------------------------------------- actions ----
\* page.goto('/', domcontentloaded) and page.reload(domcontentloaded)
DoLoad ==
    /\ Running /\ Head(prog).kind \in Loads
    /\ url' = IF Head(prog).kind = "goto" THEN UrlHome ELSE url
    /\ layout' = LayoutOf(viewport)
    /\ title' \in SiteTitles
    /\ dom' = <<>>
    /\ focus' = <<>>
    /\ navPending' = FALSE
    /\ menu' = "closed"
    /\ UNCHANGED viewport
    /\ Complete(Head(prog), <<>>)

\* page.setViewportSize({ width: 375, height: 667 })
DoSetViewportSize ==
    /\ Running /\ Head(prog).kind = "setViewportSize"
    /\ viewport' = MobileViewport
    /\ UNCHANGED <<layout, url, title, dom, focus, navPending, menu>>
    /\ Complete(Head(prog), <<>>)

\* if (await this.mobileMenuButton.isVisible()) ... else ...
DoIsVisible ==
    /\ Running /\ Head(prog).kind = "isVisible"
    /\ \E vis \in (IF layout = "mobile" THEN BOOLEAN ELSE {FALSE}) :
        /\ trace' = Append(trace,
               Event([Head(prog) EXCEPT !.arg = IF vis THEN "true" ELSE "false"],
                     <<>>))
        /\ prog' = navigateToFavoritesBranch(vis) \o Tail(prog)
    /\ waitStart' = now
    /\ UNCHANGED <<suite, tc, now, outcome, failure>>
    /\ UNCHANGED site

\* expect(locator).toBeVisible(): the condition is met
DoExpectVisible ==
    /\ Running /\ Head(prog).kind = "expectVisible"
    /\ LET el == Head(prog).el
           i == Locate(dom, el.name)
       IN  IF el.by = "text" THEN i # 0 /\ dom[i].visible ELSE MayShow(el)
    /\ UNCHANGED site
    /\ Complete(Head(prog), <<>>)

\* expect(page).toHaveURL(re)
DoExpectUrl ==
    /\ Running /\ Head(prog).kind = "expectUrl"
    /\ Test(Head(prog).re, url)
    /\ UNCHANGED site
    /\ Complete(Head(prog), <<>>)

\* expect(page).toHaveTitle(re)
DoExpectTitle ==
    /\ Running /\ Head(prog).kind = "expectTitle"
    /\ Test(Head(prog).re, title)
    /\ UNCHANGED site
    /\ Complete(Head(prog), <<>>)

\* an assertion whose condition did not come true before its deadline
ExpectFails ==
    /\ Running /\ Head(prog).kind \in Expects
    /\ Expired(Head(prog))
    /\ UNCHANGED site
    /\ Throw(Head(prog).kind)

\* locator.fill(term): the control takes the focus
DoFill ==
    /\ Running /\ Head(prog).kind = "fill"
    /\ MayShow(Head(prog).el)
    /\ focus' = <<Head(prog).el>>
    /\ UNCHANGED <<viewport, layout, url, title, dom, navPending, menu>>
    /\ Complete(Head(prog), <<>>)

\* locator.press('Enter'): submits, the focus stays where it is
DoPress ==
    /\ Running /\ Head(prog).kind = "press"
    /\ MayShow(Head(prog).el)
    /\ navPending' = TRUE
    /\ UNCHANGED <<viewport, layout, url, title, dom, focus, menu>>
    /\ Complete(Head(prog), <<>>)

\* locator.scrollIntoViewIfNeeded(): needs the locator to resolve
DoScroll ==
    /\ Running /\ Head(prog).kind = "scroll"
    /\ LET el == Head(prog).el
       IN  /\ IF el.by = "text" THEN Locate(dom, el.name) # 0 ELSE MayShow(el)
           /\ Complete(Head(prog),
                 IF el.by = "text" THEN <<dom[Locate(dom, el.name)]>> ELSE <<>>)
    /\ UNCHANGED site

\* locator.click(): needs the locator to resolve to a visible element;
\* locator.click({ force: true }) needs it to resolve, and clicks
DoClick ==
    /\ Running /\ Head(prog).kind \in {"click", "forceClick"}
    /\ LET el == Head(prog).el
           i == Locate(dom, el.name)
       IN  IF el.by = "text"
           THEN /\ i # 0
                /\ Head(prog).kind = "click" => dom[i].visible
                /\ Complete(Head(prog), <<dom[i]>>)
           ELSE /\ MayShow(el)
                /\ Complete(Head(prog), <<>>)
    /\ focus' = <<Head(prog).el>>
    /\ navPending' = TRUE
    /\ menu' = IF Head(prog).el = mobileMenuButton THEN "opening" ELSE menu
    /\ UNCHANGED <<viewport, layout, url, title, dom>>

\* page.waitForTimeout(ms) is over
DoSleep ==
    /\ Running /\ Head(prog).kind = "sleep"
    /\ Expired(Head(prog))
    /\ UNCHANGED site
    /\ Complete(Head(prog), <<>>)

\* time passes while the call at the head of prog is suspended
Tick ==
    /\ Running /\ Head(prog).kind \in Suspending
    /\ ~Expired(Head(prog))
    /\ now < TestTimeout
    /\ now' = now + TickMs
    /\ UNCHANGED <<suite, tc, waitStart, prog, trace, outcome, failure>>
    /\ UNCHANGED site

\* the runner aborts a test that runs longer than the test timeout
TestTimedOut ==
    /\ Running
    /\ now >= TestTimeout
    /\ UNCHANGED site
    /\ Throw("testTimeout")

\* the site answers an interaction by routing to another page
SiteNavigates ==
    /\ Running /\ navPending
    /\ url' \in SiteUrls \ {url}
    /\ navPending' = FALSE
    /\ UNCHANGED <<viewport, layout, title, dom, focus, menu>>
    /\ UNCHANGED <<suite, tc, now, waitStart, prog, trace, outcome, failure>>

\* the site renders, or re-renders, the text the scenario is looking for:
\* an element is added, shown or hidden, or removed
SiteRenders ==
    /\ Running /\ Head(prog).el.by = "text"
    /\ \/ /\ Len(dom) < MaxDom
          /\ \E e \in Elements : dom' = Append(dom, e)
       \/ \E i \in 1..Len(dom) :
             dom' = [dom EXCEPT ![i].visible = ~dom[i].visible]
       \/ \E i \in 1..Len(dom) :
             dom' = SubSeq(dom, 1, i - 1) \o SubSeq(dom, i + 1, Len(dom))
    /\ UNCHANGED <<viewport, layout, url, title, focus, navPending, menu>>
    /\ UNCHANGED <<suite, tc, now, waitStart, prog, trace, outcome, failure>>

\* the menu's open transition, started by the click on the menu button,
\* comes to its end; how long it takes is the site's business
MenuSettles ==
    /\ Running /\ menu = "opening"
    /\ menu' = "open"
    /\ UNCHANGED <<viewport, layout, url, title, dom, focus, navPending>>
    /\ UNCHANGED <<suite, tc, now, waitStart, prog, trace, outcome, failure>>

\* the test function returns
Finish ==
    /\ outcome = "Running" /\ prog = <<>>
    /\ outcome' = "Pass"
    /\ UNCHANGED <<suite, tc, now, waitStart, prog, trace, failure>>
    /\ UNCHANGED site

Script ==
    \/ DoLoad \/ DoSetViewportSize \/ DoIsVisible
    \/ DoExpectVisible \/ DoExpectUrl \/ DoExpectTitle \/ ExpectFails
    \/ DoFill \/ DoPress \/ DoScroll \/ DoClick \/ DoSleep
    \/ TestTimedOut \/ Finish

Next == Script \/ Tick \/ SiteNavigates \/ SiteRenders \/ MenuSettles

Spec == Init /\ [][Next]_vars

\* time does not stop, and a call that can complete is not left waiting
FairSpec == Spec /\ WF_vars(Tick) /\ WF_vars(Script)

TypeOK ==
    /\ tc \in Tests /\ viewport \in Viewports
    /\ layout \in {"none", "mobile", "desktop"}
    /\ url \in SiteUrls \cup {<<>>}
    /\ dom \in Doms
    /\ navPending \in BOOLEAN
    /\ menu \in {"closed", "opening", "open"}
    /\ now \in 0..(TestTimeout + TickMs) /\ waitStart \in 0..now
    /\ outcome \in {"Running", "Pass", "Fail"}
    /\ Len(failure) <= 1

\* ------------------------------------------------ the suite of tests ----
\* The runner takes the tests of the file one by one into its workers.  A
\* worker is a process with its own instance of the test file, hence its
\* own describe-level `homePage'; it runs one test at a time, gives each
\* test a new page, and is replaced by a new process after a failed test.

\* `homePage' bound once and then kept, instead of once per test
KeepHomePage(old, page) == IF old = "" THEN page ELSE old

\* homePage = new HomePage(page): the variable now holds a page object on
\* the page of the test that is starting
BindHomePage(old, page) == page

\* the session a call is made on: the test's own page fixture for the calls
\* the test makes itself, the page inside `homePage' for page-object calls
Target(sl, ins) == IF ins.op = "test" THEN sl.page ELSE sl.homePage

\* the session the runner creates for the page fixture of a test
NewPage == [state |-> "open", calls |-> <<>>]
\* a session torn down at the end of its test
Closed == [state |-> "closed", calls |-> <<>>]

\* while no suite is run, the single scenario of Spec is at rest
ScenarioParked ==
    /\ tc = "TC-00" /\ viewport = DesktopViewport /\ layout = "none"
    /\ url = <<>> /\ title = NoTitle /\ dom = <<>> /\ focus = <<>>
    /\ navPending = FALSE /\ menu = "closed" /\ now = 0 /\ waitStart = 0
    /\ prog = <<>> /\ trace = <<>> /\ outcome = "Pass" /\ failure = <<>>

SuiteInit ==
    /\ ScenarioParked
    /\ pending = Tests
    /\ slot = [w \in Workers |-> IdleSlot("")]
    /\ pages = [t \in Tests |-> NoPage]
    /\ result = [t \in Tests |-> "Pending"]

\* an idle worker takes a test: the page fixture is created, beforeEach
\* assigns `homePage', and the calls of beforeEach and of the test follow
StartTest(w, t) ==
    /\ slot[w].test = "" /\ t \in pending
    /\ pending' = pending \ {t}
    /\ pages[t].state = "none"
    /\ pages' = [pages EXCEPT ![t] = NewPage]
    /\ slot' = [slot EXCEPT ![w] =
                  [test |-> t, page |-> t,
                   homePage |-> BindHomePage(slot[w].homePage, t),
                   todo |-> Scenario(t)]]
    /\ result' = [result EXCEPT ![t] = "Running"]
    /\ UNCHANGED scenario

\* the calls a worker's test makes next without handing control back to the
\* test function: the body of one page-object operation (for
\* navigateToFavorites the probe and the branch it selects), or the calls
\* the test makes itself up to its next page-object operation
Expanded(todo, vis) ==
    IF Head(todo).kind = "isVisible"
    THEN <<Head(todo)>> \o navigateToFavoritesBranch(vis) \o Tail(todo)
    ELSE todo
RunLength(todo) ==
    LET same == {n \in 1..Len(todo) :
                    \A i \in 1..n : todo[i].op = todo[1].op}
    IN  CHOOSE n \in same : \A m \in same : m <= n

\* the next operation of a worker's test completes on the session it is
\* made on
SuiteCall(w) ==
    /\ slot[w].test # "" /\ slot[w].todo # <<>>
    /\ \E vis \in BOOLEAN :
          LET sl == slot[w]
              todo == Expanded(sl.todo, vis)
              n == RunLength(todo)
              p == Target(sl, Head(todo))
          IN  /\ Head(sl.todo).kind # "isVisible" => vis
              /\ p # "" /\ pages[p].state = "open"
              /\ pages' = [pages EXCEPT ![p].calls =
                    Append(@, [by |-> sl.test, op |-> Head(todo).op])]
              /\ slot' = [slot EXCEPT ![w].todo = SubSeq(todo, n + 1, Len(todo))]
    /\ UNCHANGED <<pending, result>>
    /\ UNCHANGED scenario

\* a call of the worker's next operation throws: the test fails, its session is
\* torn down and the worker process is replaced
SuiteCallFails(w) ==
    /\ slot[w].test # "" /\ slot[w].todo # <<>>
    /\ result' = [result EXCEPT ![slot[w].test] = "Fail"]
    /\ pages' = [pages EXCEPT ![slot[w].page] = Closed]
    /\ slot' = [slot EXCEPT ![w] = IdleSlot("")]
    /\ UNCHANGED pending
    /\ UNCHANGED scenario

\* the test function returns: the test passes, its session is torn down and
\* the worker, with its `homePage', is kept for the next test
SuiteTestPasses(w) ==
    /\ slot[w].test # "" /\ slot[w].todo = <<>>
    /\ result' = [result EXCEPT ![slot[w].test] = "Pass"]
    /\ pages' = [pages EXCEPT ![slot[w].page] = Closed]
    /\ slot' = [slot EXCEPT ![w] = IdleSlot(slot[w].homePage)]
    /\ UNCHANGED pending
    /\ UNCHANGED scenario

SuiteNext ==
    \E w \in Workers :
        \/ \E t \in Tests : StartTest(w, t)
        \/ SuiteCall(w)
        \/ SuiteCallFails(w)
        \/ SuiteTestPasses(w)

SuiteSpec == SuiteInit /\ [][SuiteNext]_vars

\* ============================================================== claims ====
Ev(i) == trace[i].ins
Clicks == {"click", "forceClick"}
\* the step from the unprimed to the primed state completed one call
Completed == Len(trace') = Len(trace) + 1
Latest == trace'[Len(trace')]

\* C1: inside a page-object operation every interaction (fill, press,
\* scroll, click) comes after an awaited visibility check of the same
\* locator made earlier in the same operation.
C1_InteractionsAwaited ==
    \A i \in 1..Len(trace) :
        (Ev(i).kind \in Interactions /\ Ev(i).op # "test") =>
            \E j \in 1..(i - 1) :
                /\ Ev(j).kind = "expectVisible"
                /\ Ev(j).el = Ev(i).el
                /\ \A k \in j..i : Ev(k).op = Ev(i).op

\* the actions the scenarios use to change page
NavCausing(e) ==
    \/ e.kind \in {"goto", "press"}
    \/ /\ e.kind \in Clicks
       /\ e.el \in {VisibleText("Diabetes"), diabetesBreadcrumb, principlesBtn,
                    favoritesLink, VisibleText(topicName)}
IsAction(e) == e.kind \in Interactions \cup Loads
IsAssertion(e) == e.kind \in Expects

\* C2: between a navigation-causing action and the next action of the
\* scenario an outcome assertion completes, and a scenario that passes has
\* asserted the outcome of its last navigation.
C2_NavigationAsserted ==
    /\ \A i \in 1..Len(trace) : \A j \in (i + 1)..Len(trace) :
          (NavCausing(Ev(i)) /\ IsAction(Ev(j))) =>
              \E k \in (i + 1)..(j - 1) : IsAssertion(Ev(k))
    /\ outcome = "Pass" =>
          \A i \in 1..Len(trace) :
              NavCausing(Ev(i)) =>
                  \E k \in (i + 1)..Len(trace) : IsAssertion(Ev(k))

\* C3: on the mobile viewport, when searchForGuideline returns, the search
\* control was blurred after the term was submitted and no longer holds
\* the focus.
C3_SearchBlursOnMobile ==
    \A i \in 1..Len(trace) :
        (Ev(i).op = "searchForGuideline" /\ Ev(i).ret
            /\ viewport = MobileViewport) =>
            /\ \E j \in 1..(i - 1) : \E k \in (j + 1)..(i - 1) :
                  /\ Ev(j).kind = "press" /\ Ev(j).el = searchInput
                  /\ Ev(k).kind = "blur" /\ Ev(k).el = searchInput
            /\ (i = Len(trace) => focus # <<searchInput>>)

HasVisibleMatch(d, name) ==
    \E i \in 1..Len(d) : d[i].text = name /\ d[i].visible

\* C4: selectSearchResult clicks an element of the page that is visible
\* and carries exactly the label, wherever it stands among the elements
\* with that label, and while no visible match exists the operation
\* completes no call (it clicks nothing and can only fail).
C4_SelectClicksVisibleMatch ==
    [][(Running /\ Head(prog).op = "selectSearchResult" /\ Completed) =>
          /\ HasVisibleMatch(dom, Head(prog).el.name)
          /\ Latest.ins.kind \in Clicks =>
                /\ Len(Latest.hit) = 1
                /\ Latest.hit[1] = [text |-> Head(prog).el.name, visible |-> TRUE]
                /\ \E i \in 1..Len(dom) : dom[i] = Latest.hit[1]]_vars

\* C4 witness: the visible "Diabetes" was clicked although a hidden
\* "Diabetes" stands before it.
C4_Witness ==
    /\ trace # <<>>
    /\ Ev(Len(trace)).op = "selectSearchResult"
    /\ Ev(Len(trace)).kind = "forceClick"
    /\ Len(dom) = 2
    /\ dom[1] = [text |-> "Diabetes", visible |-> FALSE]
    /\ dom[2] = [text |-> "Diabetes", visible |-> TRUE]

Allowed(ins) == IF ins.ms > 0 THEN ins.ms ELSE ExpectTimeout

C8_FirstFailureTerminal ==
    [][/\ failure # <<>> => UNCHANGED <<trace, failure, outcome, prog>>
       /\ failure' # <<>> => (outcome' = "Fail" /\ prog' = <<>>)
       /\ outcome' = "Fail" => failure' # <<>>]_vars

\* C8 witness: TC-04 failed inside navigateToFavorites with
\* verifyTopicInFavorites and the rest never run.
C8_Witness ==
    /\ tc = "TC-04"
    /\ outcome = "Fail"
    /\ failure # <<>>
    /\ failure[1].ins.op = "navigateToFavorites"
    /\ \A i \in 1..Len(trace) : Ev(i).op # "verifyTopicInFavorites"

\* the state a completed call confirms, "" when it confirms none
StageOf(i) ==
    LET e == Ev(i)
        toggled == \E j \in 1..(i - 1) :
                       Ev(j).kind = "click" /\ Ev(j).el = favButton(topicName)
    IN  CASE e.kind = "goto" -> IF i = 1 THEN "Loaded" ELSE "Departed"
          [] e.kind = "expectUrl" /\ e.re = SearchPattern -> "Searched"
          [] e.kind = "expectUrl" /\ e.re = DiabetesPattern -> "ResultSelected"
          [] e.kind = "expectVisible" /\ e.el = principlesBtn
                /\ e.op = "verifyPrinciplesTopicVisible" -> "BreadcrumbNavigated"
          [] e.kind = "expectVisible" /\ e.el = Heading(topicName) ->
                IF toggled THEN "Confirmed" ELSE "TopicOpen"
          [] e.kind = "click" /\ e.el = favButton(topicName) -> "FavoriteToggled"
          [] e.kind = "expectUrl" /\ e.re = FavouritesPattern -> "FavoritesListOpen"
          [] e.kind = "expectVisible" /\ e.op = "verifyTopicInFavorites" -> "ItemFound"
          [] e.kind = "click" /\ e.op = "test"
                /\ e.el = VisibleText(topicName) -> "ItemOpened"
          [] OTHER -> ""
Stages ==
    LET all == [i \in 1..Len(trace) |-> StageOf(i)]
    IN  SelectSeq(all, LAMBDA x : x # "")
IsPrefix(a, b) == Len(a) <= Len(b) /\ \A i \in 1..Len(a) : a[i] = b[i]
SearchChain == <<"Loaded", "Searched", "ResultSelected">>
FavoritesChain ==
    <<"Loaded", "BreadcrumbNavigated", "TopicOpen", "FavoriteToggled",
      "Departed", "FavoritesListOpen", "ItemFound", "ItemOpened", "Confirmed">>
Started(op) ==
    \/ Running /\ Head(prog).op = op
    \/ \E i \in 1..Len(trace) : Ev(i).op = op
    \/ failure # <<>> /\ failure[1].ins.op = op

\* C9: the states a scenario has confirmed are a prefix of Loaded, Searched,
\* ResultSelected or of Loaded, BreadcrumbNavigated, TopicOpen,
\* FavoriteToggled, Departed, FavoritesListOpen, ItemFound, ItemOpened,
\* Confirmed; toggleFavorite is entered only after the topic heading was
\* seen, and verifyTopicInFavorites only after navigateToFavorites returned.
C9_StagesInOrder ==
    /\ IsPrefix(Stages, SearchChain) \/ IsPrefix(Stages, FavoritesChain)
    /\ Started("toggleFavorite") =>
          \E i \in 1..Len(trace) :
              Ev(i).kind = "expectVisible" /\ Ev(i).el = Heading(topicName)
    /\ Started("verifyTopicInFavorites") =>
          \E i \in 1..Len(trace) :
              Ev(i).op = "navigateToFavorites" /\ Ev(i).ret

\* C9 witness: the favourite was toggled and the scenario went on to find
\* the topic in the favourites list.
C9_Witness ==
    /\ Len(Stages) >= 7
    /\ Stages[4] = "FavoriteToggled"
    /\ Stages[7] = "ItemFound"

\* C10: no call that completed is a fixed delay, and no scenario is ever
\* suspended in one.
C10_NoFixedDelay ==
    /\ \A i \in 1..Len(trace) : Ev(i).kind # "sleep"
    /\ ~(Running /\ Head(prog).kind = "sleep")

\* the answer of the isVisible probe of the navigateToFavorites in progress
MenuWasVisible ==
    \E i \in 1..Len(trace) : Ev(i).kind = "isVisible" /\ Ev(i).arg = "true"
MenuWasClicked ==
    \E i \in 1..Len(trace) :
        Ev(i).kind = "click" /\ Ev(i).el = mobileMenuButton

\* C12: in navigateToFavorites the menu button is clicked only when the
\* probe found it visible; the Favourites link is then clicked after the
\* menu button and only once the menu's open transition has finished, and
\* when the probe found the button not visible the link is clicked with
\* the menu button never clicked.
C12_LinkAfterMenuOpened ==
    [][(Completed /\ Latest.ins.op = "navigateToFavorites"
          /\ Latest.ins.kind = "click") =>
          /\ Latest.ins.el = mobileMenuButton => MenuWasVisible
          /\ Latest.ins.el = favoritesLink =>
                IF MenuWasVisible
                THEN MenuWasClicked /\ menu = "open"
                ELSE ~MenuWasClicked /\ menu = "closed"]_vars

Busy(w) == slot[w].test # ""
\* the worker whose step this is runs, or has just taken or ended, test t
ActsOn(w, t) ==
    /\ slot'[w] # slot[w]
    /\ slot[w].test = t \/ slot'[w].test = t

\* C11: a running test drives an open session of its own, and so does the
\* page object in its `homePage'; no two running tests share a session or
\* a page object; a session only ever receives calls of its own test, the
\* first of them the load of the home page; a session, an outcome and the
\* remaining calls of a test change only in steps of the worker running
\* that test, an outcome once reached stays, and a test that fails leaves
\* the tests not yet started and every other test as they are.
C11_ScenariosIsolated ==
    /\ [](\A w \in Workers : Busy(w) =>
             /\ slot[w].page = slot[w].test
             /\ slot[w].homePage = slot[w].page
             /\ pages[slot[w].page].state = "open")
    /\ [](\A v, w \in Workers : (Busy(v) /\ Busy(w) /\ v # w) =>
             /\ slot[v].page # slot[w].page
             /\ slot[v].homePage # slot[w].homePage)
    /\ [](\A t \in Tests :
             /\ \A i \in 1..Len(pages[t].calls) : pages[t].calls[i].by = t
             /\ pages[t].calls # <<>> => pages[t].calls[1].op = "goto"
             /\ pages[t].state = "open" <=> \E w \in Workers : slot[w].test = t)
    /\ [][/\ \A v, w \in Workers :
                (slot'[v] # slot[v] /\ v # w) => slot'[w] = slot[w]
          /\ \A t \in Tests :
                (pages'[t] # pages[t] \/ result'[t] # result[t]) =>
                    \E w \in Workers : ActsOn(w, t)
          /\ \A t \in Tests :
                result[t] \in {"Pass", "Fail"} => result'[t] = result[t]
          /\ \A t \in Tests :
                (result'[t] = "Fail" /\ result[t] # "Fail") =>
                    /\ pending' = pending
                    /\ \A u \in Tests \ {t} :
                          result'[u] = result[u] /\ pages'[u] = pages[u]]_vars

\* C11 witness: two tests run side by side, each already past the load of
\* its own session, after one test has passed in a worker that was then
\* reused and another test has failed.
C11_Witness ==
    /\ \E v, w \in Workers :
          /\ v # w /\ Busy(v) /\ Busy(w)
          /\ Len(pages[slot[v].test].calls) >= 2
          /\ Len(pages[slot[w].test].calls) >= 2
    /\ \E t \in Tests : result[t] = "Pass"
    /\ \E t \in Tests : result[t] = "Fail"

====
